---- MODULE Spec2Model ----
(***************************************************************************)
(* Face identity resolution engine of L1GHT REC0N: the enrollment window   *)
(* (face_scanner_modern.py), the on-disk dataset it writes, the embedding  *)
(* registry built from it and the live matching loop (main_modern.py).     *)
(*                                                                         *)
(* Units.  A detector confidence is kept in hundredths (0.5 is 50), an     *)
(* embedding coordinate in tenths (0.8 is 8).  np.linalg.norm is a square  *)
(* root; distances are kept squared, and d < 0.8 is compared as            *)
(* d*d < 0.8*0.8, which is the same comparison for non-negative numbers.   *)
(*                                                                         *)
(* Strings.  A string is a sequence of tokens: the blank " " or a word.    *)
(* The literal "Unknown" of the code is the one-word string <<"Unknown">>. *)
(***************************************************************************)
EXTENDS Integers, Sequences, FiniteSets, TLC

\* ---------------------------------------------------------------- bounds
MaxFrames == 2            \* live frames polled by the main window
MaxImages == 3            \* frames the scanner holds, whole-program runs
MaxUserActions == 6       \* user actions, whole-program runs
MaxSessionImages == 11    \* frames the scanner holds, session runs
MaxSessionFrames == 660   \* frames the scanner polls, session runs
MaxSessionActions == 2    \* user actions, session runs
MaxLiveFrames == 202      \* live frames polled, live runs
MaxFaceFrames == 4        \* polls that may show a face, live runs
MaxLiveActions == 2       \* user actions, live runs
MaxWindowFrames == 2      \* frames each timer polls, window runs
MaxWindowActions == 6     \* user actions, window runs
MaxBuildImages == 2       \* images of the subject varied, build runs
MaxBuildActions == 3      \* user actions, build runs
MaxSettingsActions == 3   \* operations on the option lists, settings runs

\* ------------------------------------------------------ program constants
DetectionConfidence == 50
RecognitionThreshold == 8
AutoCaptureEvery == 60
AutoCaptureCap == 10
MinCaptures == 3
ScanningEvery == 100

UNKNOWN == <<"Unknown">>

\* ------------------------------------------------------------- strings
RECURSIVE LStrip(_)
LStrip(s) == IF s # <<>> /\ Head(s) = " " THEN LStrip(Tail(s)) ELSE s

RECURSIVE RStrip(_)
RStrip(s) ==
    IF s # <<>> /\ s[Len(s)] = " " THEN RStrip(SubSeq(s, 1, Len(s) - 1)) ELSE s

Strip(s) == RStrip(LStrip(s))

\* Texts in the name field when Save is clicked: in the registry runs, and
\* in the session runs.
TypedTexts == { <<"Al">>, <<" ", "Unknown">>, <<" ">> }
SessionTexts == { <<>>, <<" ", " ">>, <<" ", "Al", " ">> }

\* -------------------------------------------------------------- frames
\* A frame is what the detector returns on it, in model output order: for
\* each candidate box its confidence, the size of the crop after clipping
\* to the image, and the embedding the recognizer returns on that crop.
Det(c, e, s) == [conf |-> c, emb |-> e, size |-> s]

\* In place of an embedding: the recognizer raises on the crop.
Raises == <<>>

NoFace == <<>>
FaceA == << Det(90, <<0, 0>>, 1) >>
FaceB == << Det(90, <<9, 1>>, 1) >>
FaceNear == << Det(90, <<3, 4>>, 1) >>
FaceEdge == << Det(90, <<8, 0>>, 1) >>
FaceFar == << Det(90, <<1, 9>>, 1) >>
FaceWeak == << Det(50, <<0, 0>>, 1) >>
FaceClipped == << Det(90, <<0, 0>>, 0) >>
FaceTwo == << Det(60, <<9, 1>>, 1), Det(90, <<0, 0>>, 1) >>
FaceFarThenA == << Det(90, <<1, 9>>, 1), Det(90, <<0, 0>>, 1) >>
FaceRaisesThenA == << Det(90, Raises, 1), Det(90, <<0, 0>>, 1) >>
FaceAThenClipped == << Det(90, <<0, 0>>, 1), Det(90, <<0, 0>>, 0) >>
FaceAThenFar == << Det(90, <<0, 0>>, 1), Det(90, <<1, 9>>, 1) >>

ScanFrames == {NoFace, FaceA}
LiveFrames ==
    {NoFace, FaceA, FaceNear, FaceEdge, FaceFar, FaceWeak, FaceClipped, FaceTwo}

\* cv2.imwrite to a .jpg file followed by cv2.imread: lossy and idempotent.
\* The recognizer's output on the decoded crop is the raw one rounded down
\* to an even number of tenths.
Quant(v) == [i \in 1..Len(v) |-> v[i] - (v[i] % 2)]
Jpeg(frame) == [i \in 1..Len(frame) |-> [frame[i] EXCEPT !.emb = Quant(@)]]

\* ------------------------------------------------------------ registry
DistSq(a, b) == (a[1] - b[1]) * (a[1] - b[1]) + (a[2] - b[2]) * (a[2] - b[2])

Distances(encodings, encoding) ==
    [i \in 1..Len(encodings) |-> DistSq(encodings[i], encoding)]

\* np.argmax where the code calls np.argmin: the first index holding the
\* maximum.
ArgMax(d) ==
    CHOOSE i \in 1..Len(d) :
        /\ \A j \in 1..Len(d) : d[i] >= d[j]
        /\ \A j \in 1..(i - 1) : d[j] < d[i]

\* np.argmin: the first index holding the minimum.
ArgMin(d) ==
    CHOOSE i \in 1..Len(d) :
        /\ \A j \in 1..Len(d) : d[i] <= d[j]
        /\ \A j \in 1..(i - 1) : d[j] > d[i]

\* WithinThreshold with the comparison `<=`: a face at exactly the
\* threshold distance would be taken for a match.
WithinThresholdLe(dsq) == dsq <= RecognitionThreshold * RecognitionThreshold

WithinThreshold(dsq) == dsq < RecognitionThreshold * RecognitionThreshold

\* Match without the test for an empty registry: the search runs over no
\* vectors, numpy raises, and the handler's `except` leaves "Unknown".
MatchUnguarded(encodings, names, encoding) ==
    LET d == Distances(encodings, encoding)
    IN  IF Len(encodings) = 0
        THEN [name |-> UNKNOWN, searched |-> TRUE, distances |-> d]
        ELSE [name |-> IF WithinThreshold(d[ArgMin(d)]) THEN names[ArgMin(d)]
                       ELSE UNKNOWN,
              searched |-> TRUE, distances |-> d]

\* The match of one encoding against the registry: the name, whether the
\* nearest-neighbour search ran, and the distances it computed.
Match(encodings, names, encoding) ==
    IF Len(encodings) > 0
    THEN LET d == Distances(encodings, encoding)
             best == ArgMin(d)
         IN  [name |-> IF WithinThreshold(d[best]) THEN names[best] ELSE UNKNOWN,
              searched |-> TRUE, distances |-> d]
    ELSE [name |-> UNKNOWN, searched |-> FALSE, distances |-> <<>>]

\* ------------------------------------------------------- registry build
\* The detection build keeps for one image: the index of the first one
\* with the highest confidence above the threshold, 0 when there is none.
RECURSIVE BestFrom(_, _, _, _)
BestFrom(dets, i, best, best_confidence) ==
    IF i > Len(dets) THEN best
    ELSE IF dets[i].conf > DetectionConfidence /\ dets[i].conf > best_confidence
         THEN BestFrom(dets, i + 1, i, dets[i].conf)
         ELSE BestFrom(dets, i + 1, best, best_confidence)

\* The best detection with `>=` for `>` in the comparison of confidences:
\* the last of the detections with the highest confidence.
BestDetectionLastOnTie(dets) ==
    LET top == { i \in 1..Len(dets) :
                    /\ dets[i].conf > DetectionConfidence
                    /\ \A j \in 1..Len(dets) : dets[j].conf <= dets[i].conf }
    IN  IF top = {} THEN 0 ELSE CHOOSE i \in top : \A j \in top : j <= i

BestDetection(dets) == BestFrom(dets, 1, 0, 0)

\* The entries one image adds to the registry: one or none.
ImageEncodings(image) ==
    LET b == BestDetection(image)
    IN  IF b # 0 /\ image[b].size > 0 THEN << image[b].emb >> ELSE <<>>

\* The files of a subject directory: <name>_<i>.jpg and profile.json.
FileNames(dir) == { <<"jpg", i>> : i \in 1..Len(dir.images) } \cup { <<"json", 0>> }

\* What load_known_faces appends for one listed file: nothing for a file
\* that is no image, the encoding of the best face for an image.
FileEncodings(dir, f) ==
    IF f[1] = "jpg" THEN ImageEncodings(dir.images[f[2]]) ELSE <<>>

\* Loaded for a loop that leaves a directory at the first file that gives
\* no encoding (`break` for `continue`): what is loaded depends on the order.
LoadedUntilSkip(encs, rest) == IF encs = <<>> THEN <<>> ELSE encs \o rest

\* The encodings of a directory after those of its file listed first.
Loaded(encs, rest) == encs \o rest

\* The files that may be listed next, one for each distinct content: two
\* image files holding the same image can be exchanged in a listing
\* without changing what is loaded.
ListedNext(dir, files) ==
    { f \in files :
        \A g \in files :
            (g[1] = f[1] /\ g[1] = "jpg" /\ dir.images[g[2]] = dir.images[f[2]])
                => f[2] <= g[2] }

\* The encodings load_known_faces can load from the files of one subject
\* directory: one sequence per order in which os.listdir may list them.
RECURSIVE LoadPerson(_, _)
LoadPerson(dir, files) ==
    IF files = {} THEN { <<>> }
    ELSE UNION { { Loaded(FileEncodings(dir, f), rest) :
                      rest \in LoadPerson(dir, files \ {f}) } :
                 f \in ListedNext(dir, files) }

\* The orders in which os.listdir may list the entries S of a directory.
RECURSIVE Orders(_)
Orders(S) ==
    IF S = {} THEN { <<>> }
    ELSE UNION { { <<x>> \o o : o \in Orders(S \ {x}) } : x \in S }

Repeat(x, n) == [i \in 1..n |-> x]

\* Appended for lists that are assigned for each subject directory where
\* the code extends them: one subject's entries replace all the others.
AppendedReset(person_name, encs, rest) ==
    [encodings |-> encs, names |-> Repeat(person_name, Len(encs))]

\* The registry after subject `person_name`, whose files gave `encs`, was
\* loaded before the subjects that gave `rest`.
Appended(person_name, encs, rest) ==
    [encodings |-> encs \o rest.encodings,
     names |-> Repeat(person_name, Len(encs)) \o rest.names]

\* The registries load_known_faces can build when os.listdir lists the
\* subjects in `order`.
RECURSIVE LoadAll(_, _)
LoadAll(ds, order) ==
    IF order = <<>> THEN { [encodings |-> <<>>, names |-> <<>>] }
    ELSE LET dir == ds.dirs[Head(order)]
         IN  { Appended(Head(order), encs, rest) :
                  encs \in LoadPerson(dir, FileNames(dir)),
                  rest \in LoadAll(ds, Tail(order)) }

\* Every registry load_known_faces can build over a dataset: one per
\* order in which os.listdir may list the subjects and their files.
LoadKnownFaces(ds) ==
    IF ~ds.exists THEN { [encodings |-> <<>>, names |-> <<>>] }
    ELSE UNION { LoadAll(ds, order) : order \in Orders(DOMAIN ds.dirs) }

\* ------------------------------------------------------------ settings
\* The objects SettingsManager keeps: item dicts {"name", "color"} and the
\* lists that hold them.  A heap is [dicts, lists]: dicts is the sequence of
\* dict objects and lists the sequence of list objects, an object's identity
\* being its index; a list of threat levels or of status types holds the
\* identities of its dicts, the list of gender options holds the strings.
\* A settings dict maps each key to the identity of its list, so that a
\* shallow dict.copy() is a copy of that map and nothing else.  Names are
\* strings as elsewhere, sequences of tokens.

\* SettingsManager.DEFAULT_SETTINGS as the class body builds it.
DefaultHeap ==
    [dicts |-> << [name |-> <<"LOW">>, color |-> "#00C864"],
                  [name |-> <<"MODERATE">>, color |-> "#FFA500"],
                  [name |-> <<"HIGH">>, color |-> "#FF4444"],
                  [name |-> <<"CRITICAL">>, color |-> "#8B0000"],
                  [name |-> <<"CIVILIAN">>, color |-> "#6C757D"],
                  [name |-> <<"VIP">>, color |-> "#FFD700"],
                  [name |-> <<"EMPLOYEE">>, color |-> "#0096FF"],
                  [name |-> <<"VISITOR">>, color |-> "#9370DB"],
                  [name |-> <<"WANTED">>, color |-> "#DC143C"],
                  [name |-> <<"UNKNOWN">>, color |-> "#808080"] >>,
     lists |-> << << 1, 2, 3, 4 >>,
                  << 5, 6, 7, 8, 9, 10 >>,
                  << <<"Male">>, <<"Female">>, <<"Other">>,
                     <<"Prefer not to say">> >> >>]

DEFAULT_SETTINGS ==
    [threat_levels |-> 1, status_types |-> 2, gender_options |-> 3]

\* The keys whose lists hold dicts.
ItemKeys == {"threat_levels", "status_types"}

\* The dicts of the list object `list`, by value.
Items(h, list) ==
    [i \in 1..Len(h.lists[list]) |-> h.dicts[h.lists[list][i]]]

\* [item["name"] for item in settings.get(key, [])]
ItemNames(h, list) ==
    [i \in 1..Len(h.lists[list]) |-> h.dicts[h.lists[list][i]].name]

\* What a settings dict `s` holds under its three list keys, by value (what
\* json.dump writes of them).
Dumped(h, s) ==
    [threat_levels |-> Items(h, s.threat_levels),
     status_types |-> Items(h, s.status_types),
     gender_options |-> h.lists[s.gender_options]]

\* any(item["name"] == name for item in list)
HasName(h, list, name) ==
    \E i \in 1..Len(h.lists[list]) : h.dicts[h.lists[list][i]].name = name

\* list.append({"name": name, "color": color}): a new dict, appended to the
\* list object in place.
AppendItem(h, list, name, color) ==
    [dicts |-> Append(h.dicts, [name |-> name, color |-> color]),
     lists |-> [h.lists EXCEPT ![list] = Append(@, Len(h.dicts) + 1)]]

\* list.append(name) on the list of gender options, in place.
AppendOption(h, list, name) ==
    [h EXCEPT !.lists[list] = Append(@, name)]

\* [item for item in list if item["name"] != name]: a new list object that
\* holds the same dicts; its identity is Len(h.lists) + 1.
WithoutItem(h, list, name) ==
    [h EXCEPT !.lists =
        Append(@, SelectSeq(h.lists[list], LAMBDA d : h.dicts[d].name # name))]

\* [item for item in list if item != name] on the gender options.
WithoutOption(h, list, name) ==
    [h EXCEPT !.lists = Append(@, SelectSeq(h.lists[list], LAMBDA o : o # name))]

\* for item in list: if item["name"] == old_name: item["name"] = new_name;
\* item["color"] = color; break -- the first such dict, changed in place.
UpdateItem(h, list, old_name, new_name, color) ==
    IF ~HasName(h, list, old_name) THEN h
    ELSE LET i == CHOOSE i \in 1..Len(h.lists[list]) :
                     /\ h.dicts[h.lists[list][i]].name = old_name
                     /\ \A j \in 1..(i - 1) :
                            h.dicts[h.lists[list][j]].name # old_name
         IN  [h EXCEPT !.dicts[h.lists[list][i]] =
                          [name |-> new_name, color |-> color]]

\* json.load of what json.dump wrote: every list and every dict of the file
\* is a new object.  `s` is the settings dict that was dumped from heap h;
\* the result is [heap, settings].
RECURSIVE LoadItems(_, _, _, _)
LoadItems(h, items, list, i) ==
    IF i > Len(items) THEN h
    ELSE LoadItems(AppendItem(h, list, items[i].name, items[i].color),
                   items, list, i + 1)

LoadList(h, items) ==
    LoadItems([h EXCEPT !.lists = Append(@, <<>>)], items, Len(h.lists) + 1, 1)

LoadedSettings(h, file) ==
    LET h1 == LoadList(h, file.threat_levels)
        h2 == LoadList(h1, file.status_types)
    IN  [heap |-> [h2 EXCEPT !.lists = Append(@, file.gender_options)],
         settings |-> [threat_levels |-> Len(h.lists) + 1,
                       status_types |-> Len(h.lists) + 2,
                       gender_options |-> Len(h.lists) + 3]]

\* SettingsManager.load_settings: without a settings file the settings are
\* DEFAULT_SETTINGS.copy(); with one, DEFAULT_SETTINGS.copy() updated with
\* the file's keys.  The file is one an earlier run saved from the defaults.
load_settings(exists) ==
    IF exists THEN LoadedSettings(DefaultHeap, Dumped(DefaultHeap, DEFAULT_SETTINGS))
    ELSE [heap |-> DefaultHeap, settings |-> DEFAULT_SETTINGS]

\* --------------------------------------------------------------- state
VARIABLES
    dataset,                \* the dataset directory: exists, dirs (subject -> files)
    known_face_encodings,   \* ModernMainWindow.known_face_encodings
    known_face_names,       \* ModernMainWindow.known_face_names
    timer,                  \* ModernMainWindow.timer is active
    video_capture,          \* ModernMainWindow.video_capture is open
    frame_count,            \* ModernMainWindow.frame_count
    process_this_frame,     \* ModernMainWindow.process_this_frame
    profile_card,           \* what ModernMainWindow.profile_card shows
    current_profile,        \* ModernMainWindow.current_profile
    scanner,                \* the FaceScannerWindow: "none", "open" or "closed"
    scanner_timer,          \* FaceScannerWindow.timer is active
    scanner_video_capture,  \* FaceScannerWindow.video_capture is open
    scanner_frame_count,    \* FaceScannerWindow.frame_count
    captured_images,        \* FaceScannerWindow.captured_images
    auto_capture,           \* FaceScannerWindow.auto_capture
    call,                   \* the handler that ran last, its inputs and its locals
    built_from,             \* the dataset load_known_faces last read
    auto_appended,          \* frames the auto capture appended: since the scanner
                            \* window was constructed (.session), and since
                            \* captured_images was last emptied (.list); and
                            \* whether captured_images has held 10 frames
                            \* since the window was constructed (.capped)
    user_actions,           \* user actions counted by the session runs
    current_camera_index,   \* ModernMainWindow.current_camera_index
    scanner_camera_index,   \* FaceScannerWindow.current_camera_index
    settings_dialog,        \* open_settings is inside dialog.exec()
    recognition_threshold,  \* settings["recognition_threshold"], in tenths
    heap,                   \* the dicts and lists of the settings
    settings,               \* settings.settings: the list under each list key
    temp_settings,          \* SettingsDialog.temp_settings, likewise
    scan_wait               \* processed frames without a kept detection since
                            \* the last processed frame that had one

vars ==
    << dataset, known_face_encodings, known_face_names, timer, video_capture,
       frame_count, process_this_frame, profile_card, current_profile, scanner,
       scanner_timer, scanner_video_capture, scanner_frame_count, captured_images,
       auto_capture, call, built_from, auto_appended, user_actions,
       current_camera_index, scanner_camera_index, settings_dialog,
       recognition_threshold, heap, settings, temp_settings, scan_wait >>

registryVars == << known_face_encodings, known_face_names, built_from >>
optionVars == << heap, settings, temp_settings >>
settingsVars == << settings_dialog, recognition_threshold, optionVars >>
mainVars ==
    << timer, video_capture, frame_count, process_this_frame, profile_card,
       current_profile, current_camera_index, scan_wait, settingsVars >>
scannerVars ==
    << scanner, scanner_timer, scanner_video_capture, scanner_frame_count,
       captured_images, auto_capture, auto_appended, scanner_camera_index >>

NoDataset == [exists |-> FALSE, dirs |-> <<>>]
None == [status |-> "None"]
ScanningProfile == [status |-> "SCANNING"]
UnknownProfile == [status |-> "UNIDENTIFIED"]

\* person_profiles.get_profile(name): the stored profile of name.
GetProfile(name) == [status |-> "IDENTIFIED", name |-> name]

\* ------------------------------------------------------- main window
\* ModernMainWindow.__init__: the registry is built, the camera opened,
\* the card shows the scanning profile and the timer runs.  The settings
\* were loaded when settings_manager was imported; `exists` tells whether
\* there was a settings file.
MainInitWith(ds, exists) ==
    /\ heap = load_settings(exists).heap
    /\ settings = load_settings(exists).settings
    /\ temp_settings = load_settings(exists).settings
    /\ dataset = ds
    /\ \E r \in LoadKnownFaces(ds) :
          /\ known_face_encodings = r.encodings
          /\ known_face_names = r.names
    /\ built_from = ds
    /\ video_capture = TRUE
    /\ frame_count = 0
    /\ process_this_frame = TRUE
    /\ profile_card = ScanningProfile
    /\ current_profile = None
    /\ current_camera_index = 0
    /\ scan_wait = 0
    /\ settings_dialog = FALSE
    /\ recognition_threshold = RecognitionThreshold

\* The first run of the program: there is no settings file yet.
MainInit(ds) == MainInitWith(ds, FALSE)

NoScanner ==
    /\ timer = TRUE
    /\ scanner = "none"
    /\ scanner_timer = FALSE
    /\ scanner_video_capture = FALSE
    /\ scanner_frame_count = 0
    /\ captured_images = <<>>
    /\ auto_capture = FALSE
    /\ auto_appended = [session |-> 0, list |-> 0, capped |-> FALSE]
    /\ scanner_camera_index = 0

\* The scanner window as open_face_scanner constructs it, the timer of the
\* main window stopped.
NewScanner ==
    /\ timer = FALSE
    /\ scanner = "open"
    /\ scanner_timer = TRUE
    /\ scanner_video_capture = TRUE
    /\ scanner_frame_count = 0
    /\ captured_images = <<>>
    /\ auto_capture = FALSE
    /\ auto_appended = [session |-> 0, list |-> 0, capped |-> FALSE]
    /\ scanner_camera_index = 0

\* The detections the live loop keeps, in model output order.
Kept(frame) == SelectSeq(frame, LAMBDA d : d.conf > DetectionConfidence)

\* Whether an encoding is obtained for the detection: the crop is not
\* empty and the recognizer does not raise.
Encoded(d) == d.size > 0 /\ d.emb # Raises

\* The results cut at the first detection without an encoding, as if the
\* failure ended the loop over the detections.
FaceMatchesAborting(frame) ==
    LET kept == Kept(frame)
        ok == { n \in 0..Len(kept) : \A i \in 1..n : Encoded(kept[i]) }
        last == CHOOSE n \in ok : \A m \in ok : m <= n
    IN  [i \in 1..last |->
            Match(known_face_encodings, known_face_names, kept[i].emb)]

\* The match of each kept detection on a processed frame.
FaceMatches(frame) ==
    LET kept == Kept(frame)
    IN  [i \in 1..Len(kept) |->
            IF Encoded(kept[i])
            THEN Match(known_face_encodings, known_face_names, kept[i].emb)
            ELSE [name |-> UNKNOWN, searched |-> FALSE, distances |-> <<>>]]

\* A toggle written inside the `if self.process_this_frame:` block, where
\* the code has it after the block: once cleared the flag stays cleared.
ToggledInsideIf(flag) == FALSE

\* The flag toggled an even number of times on a polled frame.
ToggledTwice(flag) == flag

\* The flag after a polled frame: `not self.process_this_frame`.
Toggled(flag) == ~flag

\* The last name of the frame forwarded in place of the first.
LastName(face_names) == face_names[Len(face_names)]

\* The name the profile is updated for: `face_names[0]`, the first kept
\* detection's.
FirstName(face_names) == face_names[1]

\* A profile requested for whatever the first name is, the sentinel included.
RequestedAlways(face_names) ==
    IF Len(face_names) > 0 THEN << FirstName(face_names) >> ELSE <<>>

\* The names get_profile is called with on a processed frame: the first
\* name, under `len(face_names) > 0` and `face_names[0] != "Unknown"`.
Requested(face_names) ==
    IF Len(face_names) > 0 /\ FirstName(face_names) # UNKNOWN
    THEN << FirstName(face_names) >>
    ELSE <<>>

\* ModernMainWindow.update_frame, on a timer tick; at most `limit` frames
\* are polled.
update_frame(limit, ret, frame) ==
    /\ timer
    /\ ret => video_capture /\ frame_count < limit
    /\ IF ~ret
       THEN UNCHANGED << call, frame_count, process_this_frame, profile_card,
                         current_profile, scan_wait >>
       ELSE /\ frame_count' = frame_count + 1
            /\ process_this_frame' = Toggled(process_this_frame)
            /\ IF process_this_frame
               THEN LET matches == FaceMatches(frame)
                        face_names == [i \in 1..Len(matches) |-> matches[i].name]
                    IN  /\ call' = [op |-> "update_frame", processed |-> TRUE,
                                    frame |-> frame, matches |-> matches,
                                    face_names |-> face_names,
                                    get_profile |-> Requested(face_names)]
                        /\ scan_wait' = IF Len(face_names) > 0 THEN 0 ELSE scan_wait + 1
                        /\ IF Len(face_names) > 0
                           THEN IF FirstName(face_names) # UNKNOWN
                                THEN /\ profile_card' = GetProfile(FirstName(face_names))
                                     /\ current_profile' = GetProfile(FirstName(face_names))
                                ELSE /\ profile_card' = UnknownProfile
                                     /\ UNCHANGED current_profile
                           ELSE /\ profile_card' =
                                      IF frame_count' % ScanningEvery = 0
                                      THEN ScanningProfile ELSE profile_card
                                /\ UNCHANGED current_profile
               ELSE /\ call' = [op |-> "update_frame", processed |-> FALSE]
                    /\ UNCHANGED << profile_card, current_profile, scan_wait >>
    /\ UNCHANGED << dataset, registryVars, timer, video_capture, scannerVars,
                    current_camera_index, settingsVars >>

\* The camera indices detect_cameras finds.
Cameras == {0, 1}

\* cv2.VideoCapture(index), whether the capture is open afterwards: a
\* device that no other capture has open is opened; whether one that the
\* other window's capture has open is opened again depends on the platform.
Opened(index, other_capture, other_index) ==
    IF other_capture /\ other_index = index THEN BOOLEAN ELSE {TRUE}

\* ModernMainWindow.open_face_scanner and FaceScannerWindow.__init__: the
\* new window replaces the one self.scanner_window referred to, which is
\* destroyed with its timer and its capture.
open_face_scanner ==
    /\ timer' = FALSE
    /\ scanner' = "open"
    /\ captured_images' = <<>>
    /\ auto_capture' = FALSE
    /\ scanner_video_capture' \in Opened(0, video_capture, current_camera_index)
    /\ scanner_camera_index' = 0
    /\ scanner_timer' = TRUE
    /\ scanner_frame_count' = 0
    /\ auto_appended' = [session |-> 0, list |-> 0, capped |-> FALSE]
    /\ call' = [op |-> "open_face_scanner"]
    /\ UNCHANGED << dataset, registryVars, video_capture, frame_count,
                    process_this_frame, profile_card, current_profile,
                    current_camera_index, scan_wait, settingsVars >>

\* ModernMainWindow.change_camera: the capture is released, then the
\* capture of the camera selected is opened.
change_camera(index) ==
    /\ index # current_camera_index
    /\ video_capture' \in Opened(index, scanner_video_capture, scanner_camera_index)
    /\ current_camera_index' = index
    /\ call' = [op |-> "change_camera"]
    /\ UNCHANGED << dataset, registryVars, timer, frame_count, process_this_frame,
                    profile_card, current_profile, scan_wait, settingsVars,
                    scannerVars >>

\* ModernMainWindow.open_settings up to dialog.exec(): the timer is stopped
\* and the dialog, modal to the application, is shown.  SettingsDialog.
\* __init__ takes temp_settings = settings.settings.copy(), a dict of its
\* own over the same lists.
open_settings ==
    /\ ~settings_dialog
    /\ timer' = FALSE
    /\ settings_dialog' = TRUE
    /\ temp_settings' = settings
    /\ call' = [op |-> "open_settings"]
    /\ UNCHANGED << dataset, registryVars, video_capture, frame_count,
                    process_this_frame, profile_card, current_profile,
                    current_camera_index, scan_wait, recognition_threshold,
                    heap, settings, scannerVars >>

\* The thresholds the spin box of the dialog is set to.
Thresholds == {RecognitionThreshold, 10}

\* What the profile card shows after ModernMainWindow.apply_settings.
Applied(card, profile) == IF profile # None THEN profile ELSE card

\* SettingsDialog.save_settings with `value` in the recognition threshold
\* spin box; `ok` is what settings.save_settings() returns.  When it is
\* true settings_changed runs ModernMainWindow.apply_settings, the dialog
\* is accepted and open_settings restarts the timer.
save_settings(value, ok) ==
    /\ settings_dialog
    /\ recognition_threshold' = value
    /\ settings' = temp_settings
    /\ settings_dialog' = ~ok
    /\ timer' = ok
    /\ profile_card' = IF ok THEN Applied(profile_card, current_profile)
                       ELSE profile_card
    /\ call' = [op |-> "save_settings", ok |-> ok, profile_card |-> profile_card]
    /\ UNCHANGED << dataset, registryVars, video_capture, frame_count,
                    process_this_frame, current_profile, current_camera_index,
                    scan_wait, heap, temp_settings, scannerVars >>

\* The dialog is rejected (Cancel, or closed): open_settings restarts the
\* timer.
reject_settings ==
    /\ settings_dialog
    /\ settings_dialog' = FALSE
    /\ timer' = TRUE
    /\ call' = [op |-> "reject_settings"]
    /\ UNCHANGED << dataset, registryVars, video_capture, frame_count,
                    process_this_frame, profile_card, current_profile,
                    current_camera_index, scan_wait, recognition_threshold,
                    optionVars, scannerVars >>

\* ------------------------------------------------- settings manager
\* What the operations on the option lists leave alone.
OptionFrame ==
    UNCHANGED << dataset, registryVars, timer, video_capture, frame_count,
                 process_this_frame, profile_card, current_profile,
                 current_camera_index, scan_wait, settings_dialog,
                 recognition_threshold, scannerVars >>

\* The colour the colour dialog of the settings dialog opens with when a
\* threat level is added.
PickedColor == "#FF0000"

\* SettingsManager.add_threat_level and add_status_type, the same code over
\* the list of `key`: the list is fetched, the item appended to it unless
\* the name is there, the list stored back under its key, and the settings
\* saved; returns whether it appended.
add_item(op, key, name, color) ==
    /\ heap' = IF HasName(heap, settings[key], name) THEN heap
               ELSE AppendItem(heap, settings[key], name, color)
    /\ call' = [op |-> op, key |-> key, name |-> name,
                ret |-> ~HasName(heap, settings[key], name)]
    /\ UNCHANGED << settings, temp_settings >>
    /\ OptionFrame

add_threat_level(name, color) ==
    add_item("add_threat_level", "threat_levels", name, color)

add_status_type(name, color) ==
    add_item("add_status_type", "status_types", name, color)

\* SettingsManager.remove_threat_level and remove_status_type: a new list
\* without the items of that name is stored under the key.
remove_item(op, key, name) ==
    /\ heap' = WithoutItem(heap, settings[key], name)
    /\ settings' = [settings EXCEPT ![key] = Len(heap.lists) + 1]
    /\ call' = [op |-> op, key |-> key, name |-> name]
    /\ UNCHANGED temp_settings
    /\ OptionFrame

remove_threat_level(name) ==
    remove_item("remove_threat_level", "threat_levels", name)

remove_status_type(name) ==
    remove_item("remove_status_type", "status_types", name)

\* SettingsManager.update_threat_level and update_status_type: the first
\* item named old_name gets the new name and colour.
update_item(op, key, old_name, new_name, color) ==
    /\ heap' = UpdateItem(heap, settings[key], old_name, new_name, color)
    /\ call' = [op |-> op, key |-> key, name |-> new_name]
    /\ UNCHANGED << settings, temp_settings >>
    /\ OptionFrame

update_threat_level(old_name, new_name, color) ==
    update_item("update_threat_level", "threat_levels", old_name, new_name, color)

update_status_type(old_name, new_name, color) ==
    update_item("update_status_type", "status_types", old_name, new_name, color)

\* SettingsManager.add_gender_option.
add_gender_option(name) ==
    /\ heap' = IF \E i \in 1..Len(heap.lists[settings.gender_options]) :
                     heap.lists[settings.gender_options][i] = name
               THEN heap
               ELSE AppendOption(heap, settings.gender_options, name)
    /\ call' = [op |-> "add_gender_option", key |-> "gender_options",
                name |-> name]
    /\ UNCHANGED << settings, temp_settings >>
    /\ OptionFrame

\* SettingsManager.remove_gender_option.
remove_gender_option(name) ==
    /\ heap' = WithoutOption(heap, settings.gender_options, name)
    /\ settings' = [settings EXCEPT !.gender_options = Len(heap.lists) + 1]
    /\ call' = [op |-> "remove_gender_option", key |-> "gender_options",
                name |-> name]
    /\ UNCHANGED temp_settings
    /\ OptionFrame

\* SettingsManager.reset_to_defaults: settings = DEFAULT_SETTINGS.copy(),
\* then saved.
reset_to_defaults ==
    /\ settings' = DEFAULT_SETTINGS
    /\ call' = [op |-> "reset_to_defaults"]
    /\ UNCHANGED << heap, temp_settings >>
    /\ OptionFrame

\* SettingsManager.get_threat_levels, get_status_types and
\* settings.get("gender_options").
get_threat_levels == ItemNames(heap, settings.threat_levels)
get_status_types == ItemNames(heap, settings.status_types)
gender_options == heap.lists[settings.gender_options]

\* -------------------------------------------------- settings dialog
\* str.upper() of the tokens the typed texts are made of.
UpperToken(t) ==
    CASE t = "high" -> "HIGH"
      [] t = "new" -> "NEW"
      [] t = "vip" -> "VIP"
      [] OTHER -> t

\* name.upper().strip()
UpperStrip(text) == Strip([i \in 1..Len(text) |-> UpperToken(text[i])])

\* SettingsDialog.add_threat_level and add_status_type with `text` typed
\* and a valid colour picked: a name that temp_settings has already is
\* refused; otherwise the item is appended to the list of temp_settings.
dialog_add_item(op, key, text, color) ==
    /\ settings_dialog
    /\ heap' = IF HasName(heap, temp_settings[key], UpperStrip(text)) THEN heap
               ELSE AppendItem(heap, temp_settings[key], UpperStrip(text), color)
    /\ call' = [op |-> op, key |-> key, name |-> UpperStrip(text)]
    /\ UNCHANGED << settings, temp_settings >>
    /\ OptionFrame

dialog_add_threat_level(text, color) ==
    dialog_add_item("dialog_add_threat_level", "threat_levels", text, color)

dialog_add_status_type(text, color) ==
    dialog_add_item("dialog_add_status_type", "status_types", text, color)

\* SettingsDialog.edit_threat_level and edit_status_type: the row named
\* old_name is selected, `text` typed and a valid colour picked.
dialog_edit_item(op, key, old_name, text, color) ==
    /\ settings_dialog
    /\ HasName(heap, temp_settings[key], old_name)
    /\ heap' = UpdateItem(heap, temp_settings[key], old_name, UpperStrip(text),
                          color)
    /\ call' = [op |-> op, key |-> key, name |-> UpperStrip(text)]
    /\ UNCHANGED << settings, temp_settings >>
    /\ OptionFrame

edit_threat_level(old_name, text, color) ==
    dialog_edit_item("edit_threat_level", "threat_levels", old_name, text, color)

edit_status_type(old_name, text, color) ==
    dialog_edit_item("edit_status_type", "status_types", old_name, text, color)

\* SettingsDialog.remove_threat_level and remove_status_type: the row
\* named `name` is selected and the question answered Yes.
dialog_remove_item(op, key, name) ==
    /\ settings_dialog
    /\ HasName(heap, temp_settings[key], name)
    /\ heap' = WithoutItem(heap, temp_settings[key], name)
    /\ temp_settings' = [temp_settings EXCEPT ![key] = Len(heap.lists) + 1]
    /\ call' = [op |-> op, key |-> key, name |-> name]
    /\ UNCHANGED settings
    /\ OptionFrame

dialog_remove_threat_level(name) ==
    dialog_remove_item("dialog_remove_threat_level", "threat_levels", name)

dialog_remove_status_type(name) ==
    dialog_remove_item("dialog_remove_status_type", "status_types", name)

\* SettingsDialog.add_gender_option with `text` typed.
dialog_add_gender_option(text) ==
    /\ settings_dialog
    /\ heap' = IF \E i \in 1..Len(heap.lists[temp_settings.gender_options]) :
                     heap.lists[temp_settings.gender_options][i] = Strip(text)
               THEN heap
               ELSE AppendOption(heap, temp_settings.gender_options, Strip(text))
    /\ call' = [op |-> "dialog_add_gender_option", key |-> "gender_options",
                name |-> Strip(text)]
    /\ UNCHANGED << settings, temp_settings >>
    /\ OptionFrame

\* SettingsDialog.remove_gender_option: the row `name` is selected and the
\* question answered Yes.
dialog_remove_gender_option(name) ==
    /\ settings_dialog
    /\ \E i \in 1..Len(heap.lists[temp_settings.gender_options]) :
          heap.lists[temp_settings.gender_options][i] = name
    /\ heap' = WithoutOption(heap, temp_settings.gender_options, name)
    /\ temp_settings' =
          [temp_settings EXCEPT !.gender_options = Len(heap.lists) + 1]
    /\ call' = [op |-> "dialog_remove_gender_option", key |-> "gender_options",
                name |-> name]
    /\ UNCHANGED settings
    /\ OptionFrame

\* SettingsDialog.reset_to_defaults, the question answered Yes:
\* temp_settings = settings.DEFAULT_SETTINGS.copy().
dialog_reset_to_defaults ==
    /\ settings_dialog
    /\ temp_settings' = DEFAULT_SETTINGS
    /\ call' = [op |-> "dialog_reset_to_defaults"]
    /\ UNCHANGED << heap, settings >>
    /\ OptionFrame

\* --------------------------------------------------- enrollment window
\* FaceScannerWindow.capture_image: one more read of the camera.
Captured(ret, frame) == IF ret THEN Append(captured_images, frame) ELSE captured_images

capture_image(limit, ret, frame) ==
    /\ scanner = "open"
    /\ Len(captured_images) < limit
    /\ ret => scanner_video_capture
    /\ captured_images' = Captured(ret, frame)
    /\ auto_appended' =
          [auto_appended EXCEPT !.capped = @ \/ Len(Captured(ret, frame)) >= AutoCaptureCap]
    /\ call' = IF ret THEN [op |-> "capture_image"] ELSE call
    /\ UNCHANGED << dataset, registryVars, mainVars, scanner, scanner_timer,
                    scanner_video_capture, scanner_camera_index,
                    scanner_frame_count, auto_capture >>

\* AutoCaptureDue with the comparison `<=`: an eleventh frame is appended.
AutoCaptureDueOffByOne(face_detected, count) ==
    /\ auto_capture
    /\ face_detected
    /\ count % AutoCaptureEvery = 0
    /\ Len(captured_images) <= AutoCaptureCap

\* AutoCaptureDue without the test of face_detected.
AutoCaptureDueNoFace(face_detected, count) ==
    /\ auto_capture
    /\ count % AutoCaptureEvery = 0
    /\ Len(captured_images) < AutoCaptureCap

\* AutoCaptureDue without the cap on the length of the list.
AutoCaptureDueUncapped(face_detected, count) ==
    /\ auto_capture
    /\ face_detected
    /\ count % AutoCaptureEvery = 0

\* Whether update_frame calls capture_image on the frame it just counted.
AutoCaptureDue(face_detected, count) ==
    /\ auto_capture
    /\ face_detected
    /\ count % AutoCaptureEvery = 0
    /\ Len(captured_images) < AutoCaptureCap

\* FaceScannerWindow.update_frame, on a timer tick that reads `frame`; when
\* the auto capture is due capture_image reads the camera once more.
scanner_update_frame(limit, frames, ret, frame) ==
    /\ scanner_timer
    /\ ret => scanner_video_capture /\ scanner_frame_count < limit
    /\ IF ~ret
       THEN /\ call' = IF scanner = "closed"
                       THEN [op |-> "scanner_update_frame", ret |-> FALSE,
                             face_detected |-> FALSE, due |-> FALSE]
                       ELSE call
            /\ UNCHANGED << scanner_frame_count, captured_images, auto_appended >>
       ELSE LET face_detected == Len(Kept(frame)) > 0
                due == AutoCaptureDue(face_detected, scanner_frame_count + 1)
            IN  /\ scanner_frame_count' = scanner_frame_count + 1
                /\ call' = [op |-> "scanner_update_frame", ret |-> TRUE,
                            face_detected |-> face_detected, due |-> due]
                /\ IF due
                   THEN \E ret2 \in BOOLEAN, frame2 \in frames :
                           /\ captured_images' = Captured(ret2, frame2)
                           /\ auto_appended' =
                                 IF ret2
                                 THEN [session |-> auto_appended.session + 1,
                                       list |-> auto_appended.list + 1,
                                       capped |-> \/ auto_appended.capped
                                                  \/ Len(captured_images) + 1
                                                        >= AutoCaptureCap]
                                 ELSE auto_appended
                   ELSE UNCHANGED << captured_images, auto_appended >>
    /\ UNCHANGED << dataset, registryVars, mainVars, scanner, scanner_timer,
                    scanner_video_capture, scanner_camera_index, auto_capture >>

\* FaceScannerWindow.toggle_auto_capture.
toggle_auto_capture ==
    /\ scanner = "open"
    /\ auto_capture' = ~auto_capture
    /\ call' = [op |-> "toggle_auto_capture"]
    /\ UNCHANGED << dataset, registryVars, mainVars, scanner, scanner_timer,
                    scanner_video_capture, scanner_camera_index,
                    scanner_frame_count, captured_images,
                    auto_appended >>

\* FaceScannerWindow.change_camera: the capture is released, then the
\* capture of the camera selected is opened.
scanner_change_camera(index) ==
    /\ scanner = "open"
    /\ index # scanner_camera_index
    /\ scanner_video_capture' \in Opened(index, video_capture, current_camera_index)
    /\ scanner_camera_index' = index
    /\ call' = [op |-> "scanner_change_camera"]
    /\ UNCHANGED << dataset, registryVars, mainVars, scanner, scanner_timer,
                    scanner_frame_count, captured_images, auto_capture,
                    auto_appended >>

\* FaceScannerWindow.clear_form.
clear_form ==
    /\ scanner = "open"
    /\ captured_images' = <<>>
    /\ auto_appended' = [auto_appended EXCEPT !.list = 0]
    /\ call' = [op |-> "clear_form"]
    /\ UNCHANGED << dataset, registryVars, mainVars, scanner, scanner_timer,
                    scanner_video_capture, scanner_camera_index,
                    scanner_frame_count, auto_capture >>

\* The files of dataset/<name>/ after save_profile wrote the captured
\* frames as <name>_1.jpg .. <name>_n.jpg over what was there.
SavedImages(old, images) ==
    [i \in 1..Len(images) |-> Jpeg(images[i])] \o SubSeq(old, Len(images) + 1, Len(old))

\* The dataset after save_profile wrote the images under `name`.
SavedDataset(ds, name, images) ==
    LET old == IF name \in DOMAIN ds.dirs THEN ds.dirs[name].images ELSE <<>>
        dir == [images |-> SavedImages(old, images),
                profile |-> [name |-> name, sightings |-> 0]]
    IN  [exists |-> TRUE,
         dirs |-> [p \in DOMAIN ds.dirs \cup {name} |->
                      IF p = name THEN dir ELSE ds.dirs[p]]]

\* SaveResult with the comparison `<=`: three frames are refused.
SaveResultOffByOne(text) ==
    IF Strip(text) = <<>> THEN "EmptyName"
    ELSE IF Len(captured_images) <= MinCaptures THEN "InsufficientCaptures"
    ELSE "Ok"

\* SaveResult with the two checks exchanged: the count is examined first.
SaveResultCountFirst(text) ==
    IF Len(captured_images) < MinCaptures THEN "InsufficientCaptures"
    ELSE IF Strip(text) = <<>> THEN "EmptyName"
    ELSE "Ok"

\* What save_profile answers for the text of the name field.
SaveResult(text) ==
    IF Strip(text) = <<>> THEN "EmptyName"
    ELSE IF Len(captured_images) < MinCaptures THEN "InsufficientCaptures"
    ELSE "Ok"

\* SaveWrites with os.makedirs moved before the count check: a refused
\* save leaves an empty subject directory.
SaveWritesEarlyMkdir(ds, name, images, result) ==
    IF result = "Ok" THEN SavedDataset(ds, name, images)
    ELSE IF result = "InsufficientCaptures"
    THEN [exists |-> TRUE,
          dirs |-> [p \in DOMAIN ds.dirs \cup {name} |->
                       IF p \in DOMAIN ds.dirs THEN ds.dirs[p]
                       ELSE [images |-> <<>>, profile |-> None]]]
    ELSE ds

\* The dataset save_profile leaves: written only once both checks passed.
SaveWrites(ds, name, images, result) ==
    IF result = "Ok" THEN SavedDataset(ds, name, images) ELSE ds

\* FaceScannerWindow.save_profile, with `text` in the name field; on
\* success it ends with clear_form.
save_profile(text) ==
    LET name == Strip(text)
        result == SaveResult(text)
    IN  /\ scanner = "open"
        /\ call' = [op |-> "save_profile", text |-> text, result |-> result,
                    captured |-> captured_images, auto_capture |-> auto_capture,
                    dataset |-> dataset]
        /\ dataset' = SaveWrites(dataset, name, captured_images, result)
        /\ IF result = "Ok"
           THEN /\ captured_images' = <<>>
                /\ auto_appended' = [auto_appended EXCEPT !.list = 0]
           ELSE UNCHANGED << captured_images, auto_appended >>
        /\ UNCHANGED << registryVars, mainVars, scanner, scanner_timer,
                        scanner_video_capture, scanner_camera_index,
                    scanner_frame_count, auto_capture >>

\* load_known_faces with the test of the dataset directory before the two
\* lists are emptied: over a missing directory the lists stay as they are.
ReloadedNoReset ==
    IF ~dataset.exists
    THEN { [encodings |-> known_face_encodings, names |-> known_face_names] }
    ELSE LoadKnownFaces(dataset)

\* on_scanner_closed: self.load_known_faces() over the dataset as it is.
Reloaded == LoadKnownFaces(dataset)

\* FaceScannerWindow.closeEvent, and ModernMainWindow.on_scanner_closed which
\* the finished signal runs: the registry is rebuilt and the timer resumed.
scanner_closeEvent ==
    /\ scanner = "open"
    /\ scanner' = "closed"
    /\ scanner_video_capture' = FALSE
    /\ \E r \in Reloaded :
          /\ known_face_encodings' = r.encodings
          /\ known_face_names' = r.names
    /\ built_from' = dataset
    /\ timer' = TRUE
    /\ call' = [op |-> "scanner_closeEvent",
                encodings |-> known_face_encodings, names |-> known_face_names,
                built_from |-> built_from]
    /\ UNCHANGED << dataset, video_capture, frame_count, process_this_frame,
                    profile_card, current_profile, scanner_timer,
                    scanner_frame_count, captured_images, auto_capture,
                    auto_appended, current_camera_index, scanner_camera_index,
                    scan_wait, settingsVars >>

\* ------------------------------------------------------ specifications
\* A dataset an earlier run left: subject Bo, enrolled with three frames.
BoDataset ==
    [exists |-> TRUE,
     dirs |-> (<<"Bo">> :> [images |-> << Jpeg(FaceB), Jpeg(FaceA), Jpeg(NoFace) >>,
                            profile |-> [name |-> <<"Bo">>, sightings |-> 0]])]

InitialDatasets == {NoDataset, BoDataset}

\* One more user action at the main window or the scanner window, of at
\* most `limit`: the settings dialog, modal, takes none while it is open.
UserAction(limit) ==
    /\ ~settings_dialog
    /\ user_actions < limit
    /\ user_actions' = user_actions + 1

\* The registry runs: the program started over no dataset or over an
\* earlier one, live matching, and enrollment of frames captured by hand
\* (the scanner's own ticks and its auto capture are in the session runs).
Init ==
    /\ \E ds \in InitialDatasets : MainInit(ds)
    /\ NoScanner
    /\ call = [op |-> "__init__"]
    /\ user_actions = 0

Next ==
    \/ \E ret \in BOOLEAN : \E frame \in IF ret THEN LiveFrames ELSE {NoFace} :
          update_frame(MaxFrames, ret, frame) /\ UNCHANGED user_actions
    \/ open_face_scanner /\ UserAction(MaxUserActions)
    \/ \E ret \in BOOLEAN : \E frame \in IF ret THEN ScanFrames ELSE {NoFace} :
          capture_image(MaxImages, ret, frame) /\ UserAction(MaxUserActions)
    \/ clear_form /\ UserAction(MaxUserActions)
    \/ \E text \in TypedTexts : save_profile(text) /\ UserAction(MaxUserActions)
    \/ scanner_closeEvent /\ UserAction(MaxUserActions)

Spec == Init /\ [][Next]_vars

\* The session runs: the program started over no dataset, from the state
\* in which open_face_scanner has constructed the scanner window, with a
\* face in front of the camera whenever capture_image reads it.
SessionFrames == {FaceA}

SessionInit ==
    /\ MainInit(NoDataset)
    /\ NewScanner
    /\ call = [op |-> "open_face_scanner"]
    /\ user_actions = 0

SessionNext ==
    \/ open_face_scanner /\ UserAction(MaxSessionActions)
    \/ \E ret \in BOOLEAN, frame \in SessionFrames :
          capture_image(MaxSessionImages, ret, frame) /\ UserAction(MaxSessionActions)
    \/ \E ret \in BOOLEAN : \E frame \in IF ret THEN ScanFrames ELSE {NoFace} :
          scanner_update_frame(MaxSessionFrames, SessionFrames, ret, frame)
          /\ UNCHANGED user_actions
    \/ toggle_auto_capture /\ UserAction(MaxSessionActions)
    \/ clear_form /\ UserAction(MaxSessionActions)
    \/ \E text \in SessionTexts : save_profile(text) /\ UserAction(MaxSessionActions)
    \/ scanner_closeEvent /\ UserAction(MaxSessionActions)

SpecSession == SessionInit /\ [][SessionNext]_vars

\* The live runs: the program started over the dataset of an earlier run;
\* faces come into view during the first polls and none afterwards; the
\* settings dialog is opened, saved or cancelled, the camera is changed.
LiveFaces ==
    {NoFace, FaceA, FaceFar, FaceTwo, FaceFarThenA, FaceAThenFar, FaceClipped,
     FaceRaisesThenA, FaceAThenClipped}

LiveInit ==
    /\ MainInit(BoDataset)
    /\ NoScanner
    /\ call = [op |-> "__init__"]
    /\ user_actions = 0

LiveNext ==
    \/ \E ret \in BOOLEAN :
          \E frame \in IF ret /\ frame_count < MaxFaceFrames THEN LiveFaces
                       ELSE {NoFace} :
             update_frame(MaxLiveFrames, ret, frame) /\ UNCHANGED user_actions
    \/ open_settings /\ UserAction(MaxLiveActions)
    \/ \E value \in Thresholds, ok \in BOOLEAN :
          save_settings(value, ok) /\ UNCHANGED user_actions
    \/ reject_settings /\ UNCHANGED user_actions
    \/ \E index \in Cameras : change_camera(index) /\ UserAction(MaxLiveActions)

SpecLive == LiveInit /\ [][LiveNext]_vars

\* The window runs: the program started over no dataset, one subject is
\* enrolled with a face in view, and the scanner window, the settings
\* dialog and the camera selectors are used in any order.
WindowInit ==
    /\ MainInit(NoDataset)
    /\ NoScanner
    /\ call = [op |-> "__init__"]
    /\ user_actions = 0

WindowNext ==
    \/ \E ret \in BOOLEAN :
          update_frame(MaxWindowFrames, ret, IF ret THEN FaceA ELSE NoFace)
          /\ UNCHANGED user_actions
    \/ \E ret \in BOOLEAN :
          scanner_update_frame(MaxWindowFrames, SessionFrames, ret,
                               IF ret THEN FaceA ELSE NoFace)
          /\ UNCHANGED user_actions
    \/ open_face_scanner /\ UserAction(MaxWindowActions)
    \/ capture_image(MaxImages, TRUE, FaceA) /\ UserAction(MaxWindowActions)
    \/ save_profile(<<"Al">>) /\ UserAction(MaxWindowActions)
    \/ scanner_closeEvent /\ UserAction(MaxWindowActions)
    \/ open_settings /\ UserAction(MaxWindowActions)
    \/ save_settings(RecognitionThreshold, TRUE) /\ UNCHANGED user_actions
    \/ reject_settings /\ UNCHANGED user_actions
    \/ \E index \in Cameras : change_camera(index) /\ UserAction(MaxWindowActions)
    \/ \E index \in Cameras :
          scanner_change_camera(index) /\ UserAction(MaxWindowActions)

SpecWindows == WindowInit /\ [][WindowNext]_vars

\* The build runs: the program started over a dataset of two subjects,
\* one of them with any images out of BuildImages; the registry is rebuilt
\* when the scanner window is closed, and the dataset directory may have
\* been removed in between.
ImageTie == << Det(90, <<8, 0>>, 1), Det(90, <<0, 0>>, 1) >>
ImageBestClipped == << Det(90, <<8, 0>>, 0), Det(60, <<0, 0>>, 1) >>
BuildImages ==
    { Jpeg(image) : image \in {NoFace, FaceA, FaceWeak, FaceTwo, ImageTie,
                               ImageBestClipped} }

RECURSIVE ImageLists(_)
ImageLists(n) ==
    IF n = 0 THEN { <<>> }
    ELSE ImageLists(n - 1)
         \cup { Append(l, image) : l \in { k \in ImageLists(n - 1) : Len(k) = n - 1 },
                                   image \in BuildImages }

BuildDirs(images) == [images |-> images, profile |-> [name |-> <<"Al">>, sightings |-> 0]]

BuildDatasets ==
    { [exists |-> TRUE, dirs |-> (<<"Al">> :> BuildDirs(images)) @@ bo] :
         images \in ImageLists(MaxBuildImages),
         bo \in { <<>>,
                  BoDataset.dirs,
                  (<<"Bo">> :> [images |-> << Jpeg(NoFace), Jpeg(FaceWeak) >>,
                                profile |-> [name |-> <<"Bo">>, sightings |-> 0]]) } }

\* The dataset directory is removed from outside the program.
remove_dataset ==
    /\ dataset.exists
    /\ dataset' = NoDataset
    /\ call' = [op |-> "remove_dataset"]
    /\ UNCHANGED << registryVars, mainVars, scannerVars >>

BuildInit ==
    /\ \E ds \in BuildDatasets : MainInit(ds)
    /\ NoScanner
    /\ call = [op |-> "__init__"]
    /\ user_actions = 0

BuildNext ==
    \/ open_face_scanner /\ UserAction(MaxBuildActions)
    \/ remove_dataset /\ UserAction(MaxBuildActions)
    \/ scanner_closeEvent /\ UserAction(MaxBuildActions)

SpecBuild == BuildInit /\ [][BuildNext]_vars

\* The settings runs: the program started with or without a settings file;
\* the option lists are changed through SettingsManager while no dialog is
\* open, and through the settings dialog, which is saved or rejected.
ThreatNames == { <<"LOW">>, <<"HIGH">> }
StatusNames == { <<"VIP">>, <<"NEW">> }
GenderNames == { <<"Male">>, <<"New">> }
ThreatTexts == { <<" ", "high">>, <<"new">> }
StatusTexts == { <<"vip">>, <<"new", " ">> }
GenderTexts == { <<"Male">>, <<" ", "New">> }

\* One more operation inside the open settings dialog, of at most `limit`.
DialogAction(limit) ==
    /\ user_actions < limit
    /\ user_actions' = user_actions + 1

SettingsInit ==
    /\ \E exists \in BOOLEAN : MainInitWith(NoDataset, exists)
    /\ NoScanner
    /\ call = [op |-> "__init__"]
    /\ user_actions = 0

SettingsNext ==
    \/ \E name \in ThreatNames :
          add_threat_level(name, PickedColor) /\ UserAction(MaxSettingsActions)
    \/ \E name \in ThreatNames :
          remove_threat_level(name) /\ UserAction(MaxSettingsActions)
    \/ \E old_name \in ThreatNames, new_name \in ThreatNames :
          update_threat_level(old_name, new_name, PickedColor)
          /\ UserAction(MaxSettingsActions)
    \/ \E name \in StatusNames :
          add_status_type(name, PickedColor) /\ UserAction(MaxSettingsActions)
    \/ \E name \in StatusNames :
          remove_status_type(name) /\ UserAction(MaxSettingsActions)
    \/ \E old_name \in StatusNames, new_name \in StatusNames :
          update_status_type(old_name, new_name, PickedColor)
          /\ UserAction(MaxSettingsActions)
    \/ \E name \in GenderNames :
          add_gender_option(name) /\ UserAction(MaxSettingsActions)
    \/ \E name \in GenderNames :
          remove_gender_option(name) /\ UserAction(MaxSettingsActions)
    \/ reset_to_defaults /\ UserAction(MaxSettingsActions)
    \/ open_settings /\ UserAction(MaxSettingsActions)
    \/ \E text \in ThreatTexts :
          dialog_add_threat_level(text, PickedColor)
          /\ DialogAction(MaxSettingsActions)
    \/ \E old_name \in ThreatNames, text \in ThreatTexts :
          edit_threat_level(old_name, text, PickedColor)
          /\ DialogAction(MaxSettingsActions)
    \/ \E name \in ThreatNames :
          dialog_remove_threat_level(name) /\ DialogAction(MaxSettingsActions)
    \/ \E text \in StatusTexts :
          dialog_add_status_type(text, PickedColor)
          /\ DialogAction(MaxSettingsActions)
    \/ \E old_name \in StatusNames, text \in StatusTexts :
          edit_status_type(old_name, text, PickedColor)
          /\ DialogAction(MaxSettingsActions)
    \/ \E name \in StatusNames :
          dialog_remove_status_type(name) /\ DialogAction(MaxSettingsActions)
    \/ \E text \in GenderTexts :
          dialog_add_gender_option(text) /\ DialogAction(MaxSettingsActions)
    \/ \E name \in GenderNames :
          dialog_remove_gender_option(name) /\ DialogAction(MaxSettingsActions)
    \/ dialog_reset_to_defaults /\ DialogAction(MaxSettingsActions)
    \/ \E ok \in BOOLEAN :
          save_settings(RecognitionThreshold, ok) /\ UNCHANGED user_actions
    \/ reject_settings /\ UNCHANGED user_actions

SpecSettings == SettingsInit /\ [][SettingsNext]_vars

\* ---------------------------------------------------------- properties
\* The (label, vector) entries of a registry, and how often each occurs.
Entries(encodings, names) == { <<names[i], encodings[i]>> : i \in 1..Len(encodings) }
EntryCount(encodings, names, entry) ==
    Cardinality({ i \in 1..Len(encodings) : <<names[i], encodings[i]>> = entry })
Labels(names) == { names[i] : i \in 1..Len(names) }

\* The least squared distance from a stored vector to `encoding`.
MinDistSq(encoding) ==
    LET all == { DistSq(known_face_encodings[j], encoding) :
                    j \in 1..Len(known_face_encodings) }
    IN  CHOOSE m \in all : \A d \in all : m <= d

\* The detections of the frame the last update_frame processed that were
\* sent to the registry: kept, with a crop that is not empty.
Queried ==
    IF call.op = "update_frame" /\ call.processed
    THEN { i \in 1..Len(Kept(call.frame)) : Encoded(Kept(call.frame)[i]) }
    ELSE {}

\* C1: while the registry is empty every query answers UNKNOWN, and it
\* answers without running the distance search (so nothing is computed and
\* nothing can raise): for every embedding the camera can deliver, and for
\* every detection update_frame did send to the registry, also after a
\* rebuild over a missing dataset or over one whose images hold no face.
C1_EmptyRegistryUnknown ==
    Len(known_face_encodings) = 0 =>
        /\ \A frame \in LiveFrames : \A i \in 1..Len(frame) :
              LET m == Match(known_face_encodings, known_face_names, frame[i].emb)
              IN  m.name = UNKNOWN /\ ~m.searched /\ m.distances = <<>>
        /\ \A i \in Queried :
                 /\ call.matches[i].name = UNKNOWN
                 /\ ~call.matches[i].searched
                 /\ call.matches[i].distances = <<>>
                 /\ call.face_names[i] = UNKNOWN

\* C1 happens: the registry was rebuilt over a dataset that exists but
\* whose images hold no face, and update_frame then queried it with a face.
C1_Witness ==
    /\ dataset.exists /\ DOMAIN dataset.dirs # {}
    /\ built_from = dataset
    /\ Len(known_face_encodings) = 0
    /\ 1 \in Queried
    /\ call.matches[1].name = UNKNOWN

\* C2: with a registry that is not empty, a query answers the label of a
\* stored vector at the least distance when that distance is strictly
\* below the threshold, and UNKNOWN when it is not.
C2_NearestBelowThreshold ==
    Len(known_face_encodings) > 0 =>
        \A i \in Queried :
              LET q == Kept(call.frame)[i].emb
                  m == MinDistSq(q)
              IN  /\ call.matches[i].searched
                  /\ m < RecognitionThreshold * RecognitionThreshold =>
                        \E j \in 1..Len(known_face_encodings) :
                           /\ DistSq(known_face_encodings[j], q) = m
                           /\ call.face_names[i] = known_face_names[j]
                  /\ m >= RecognitionThreshold * RecognitionThreshold =>
                        call.face_names[i] = UNKNOWN

\* C2 happens at the boundary: the nearest stored vector is at exactly the
\* threshold distance, and the answer is UNKNOWN.
C2_Witness ==
    /\ Len(known_face_encodings) > 0
    /\ 1 \in Queried
    /\ MinDistSq(Kept(call.frame)[1].emb) = RecognitionThreshold * RecognitionThreshold
    /\ call.face_names[1] = UNKNOWN

\* C3: a query with a vector identical to a stored one is matched: the
\* answer is a known label, never UNKNOWN.
C3_IdenticalIsKnown ==
    \A i \in Queried :
       (\E j \in 1..Len(known_face_encodings) :
           known_face_encodings[j] = Kept(call.frame)[i].emb)
          => call.face_names[i] # UNKNOWN

\* C3 fails where a subject was enrolled under the label "Unknown": a
\* query identical to its stored vector answers that label, the UNKNOWN
\* sentinel itself.
C3_SentinelLabelMatched ==
    /\ 1 \in Queried
    /\ \E j \in 1..Len(known_face_encodings) :
          /\ known_face_encodings[j] = Kept(call.frame)[1].emb
          /\ known_face_names[j] = UNKNOWN
    /\ call.matches[1].distances[ArgMin(call.matches[1].distances)] = 0
    /\ call.face_names[1] = UNKNOWN

\* The label a text of the name field gives is empty: the text holds
\* nothing but whitespace.
Blank(text) == \A i \in 1..Len(text) : text[i] = " "

\* C4: with a label that is not empty after trimming, save_profile
\* succeeds, writing the captured frames under the label, exactly when at
\* least 3 frames are captured; with 2 or fewer it fails with
\* InsufficientCaptures.
C4_ThreeCapturesNeeded ==
    (call.op = "save_profile" /\ ~Blank(call.text)) =>
        /\ call.result = "Ok" <=> Len(call.captured) >= 3
        /\ Len(call.captured) <= 2 => call.result = "InsufficientCaptures"
        /\ call.result = "Ok" =>
              /\ Strip(call.text) \in DOMAIN dataset.dirs
              /\ \A i \in 1..Len(call.captured) :
                    dataset.dirs[Strip(call.text)].images[i] = Jpeg(call.captured[i])

\* C4 happens at the boundary: exactly 3 captured frames are saved.
C4_Witness ==
    /\ call.op = "save_profile" /\ ~Blank(call.text)
    /\ Len(call.captured) = 3
    /\ call.result = "Ok"

\* C5: with a text that is empty or only whitespace save_profile fails
\* with EmptyName whatever the number of captured frames (none, 3, 10 or
\* more): the label is examined before the count.
C5_EmptyLabelRejected ==
    (call.op = "save_profile" /\ Blank(call.text)) =>
        /\ call.result = "EmptyName"
        /\ dataset = call.dataset

\* C5 happens with only whitespace typed and 10 or more frames captured.
C5_Witness ==
    /\ call.op = "save_profile"
    /\ call.text # <<>> /\ Blank(call.text)
    /\ Len(call.captured) >= 10
    /\ call.result = "EmptyName"

\* C6: a save_profile that is refused writes nothing and changes nothing:
\* the dataset, the captured frames and the auto capture flag are what
\* they were before the call.
C6_RejectedSaveChangesNothing ==
    (call.op = "save_profile" /\ call.result # "Ok") =>
        /\ dataset = call.dataset
        /\ captured_images = call.captured
        /\ auto_capture = call.auto_capture

\* C6 happens: a save is refused for its count while frames are held and
\* the auto capture is on.
C6_Witness ==
    /\ call.op = "save_profile"
    /\ call.result = "InsufficientCaptures"
    /\ Len(call.captured) = 2
    /\ call.auto_capture
    /\ captured_images = call.captured

Rebuilt == call.op = "scanner_closeEvent"

\* The subject directories written since the build before the last one.
Enrolled ==
    IF Rebuilt
    THEN { l \in DOMAIN dataset.dirs :
              l \notin DOMAIN call.built_from.dirs
              \/ call.built_from.dirs[l] # dataset.dirs[l] }
    ELSE {}

\* The embedding of the face of a stored image, <<>> when it shows none.
FaceOf(image) ==
    LET faces == { d \in 1..Len(image) :
                      /\ image[d].conf > DetectionConfidence
                      /\ \A e \in 1..Len(image) : image[e].conf <= image[d].conf }
    IN  IF faces = {} THEN <<>>
        ELSE LET d == CHOOSE x \in faces : \A y \in faces : x <= y
             IN  IF image[d].size > 0 THEN << image[d].emb >> ELSE <<>>

\* Every image of a subject shows a face.
AllFaces(l) ==
    \A i \in 1..Len(dataset.dirs[l].images) : FaceOf(dataset.dirs[l].images[i]) # <<>>
SomeFace(l) ==
    \E i \in 1..Len(dataset.dirs[l].images) : FaceOf(dataset.dirs[l].images[i]) # <<>>

\* What a query with embedding `encoding` answers in this state.
Query(encoding) == Match(known_face_encodings, known_face_names, encoding).name

OneEnrolled(l) ==
    /\ Rebuilt
    /\ Enrolled = {l}
    /\ l \notin DOMAIN call.built_from.dirs
    /\ DOMAIN dataset.dirs = DOMAIN call.built_from.dirs \cup {l}

DatasetCount(ds, entry) ==
    IF ds.exists /\ entry[1] \in DOMAIN ds.dirs
    THEN Cardinality({ i \in 1..Len(ds.dirs[entry[1]].images) :
                          FaceOf(ds.dirs[entry[1]].images[i]) = << entry[2] >> })
    ELSE 0
DatasetEntries(ds) ==
    IF ds.exists
    THEN UNION { { <<l, FaceOf(ds.dirs[l].images[i])[1]>> :
                      i \in { k \in 1..Len(ds.dirs[l].images) :
                                 FaceOf(ds.dirs[l].images[k]) # <<>> } } :
                 l \in DOMAIN ds.dirs }
    ELSE {}

\* C10: a build is a function of the dataset alone: the registry holds
\* exactly the entries the images of the dataset it was built from give,
\* each as often as it is given, whatever the listing order and whatever
\* the registry held before; two builds over an unchanged dataset hold the
\* same entries.
C10_BuildDeterministic ==
    /\ Entries(known_face_encodings, known_face_names) = DatasetEntries(built_from)
    /\ \A entry \in DatasetEntries(built_from) :
          EntryCount(known_face_encodings, known_face_names, entry)
             = DatasetCount(built_from, entry)
    /\ (Rebuilt /\ call.built_from = dataset) =>
          /\ Entries(known_face_encodings, known_face_names)
                = Entries(call.encodings, call.names)
          /\ Len(known_face_encodings) = Len(call.encodings)

\* C10 happens: two builds over the same dataset listed it in different
\* orders and hold the same entries.
C10_Witness ==
    /\ Rebuilt /\ call.built_from = dataset
    /\ Len(known_face_encodings) >= 2
    /\ call.encodings # known_face_encodings
    /\ Entries(known_face_encodings, known_face_names)
          = Entries(call.encodings, call.names)

\* ------------------------------------------------ the live loop's frames

\* C11: the live loop alternates processed and skipped frames.  Every polled
\* frame is handled by update_frame, it is processed exactly when the flag
\* was set before it, the flag is flipped by it and by nothing else, and the
\* first polled frame of a run is processed: so no two consecutive polled
\* frames are both processed or both skipped.
C11_Alternates ==
    [][/\ frame_count' # frame_count =>
             /\ frame_count' = frame_count + 1
             /\ call'.op = "update_frame"
             /\ call'.processed = process_this_frame
             /\ process_this_frame' = ~process_this_frame
             /\ frame_count = 0 => call'.processed
       /\ process_this_frame' # process_this_frame =>
             frame_count' # frame_count]_vars

\* A processed frame, a skipped frame and a processed frame again.
C11_Witness ==
    /\ call.op = "update_frame"
    /\ call.processed
    /\ frame_count = 3

\* A step that is a skipped frame, and a step that is a processed frame.
SkippedFrame ==
    /\ frame_count' # frame_count
    /\ call'.op = "update_frame"
    /\ ~call'.processed

ProcessedFrame ==
    /\ frame_count' # frame_count
    /\ call'.op = "update_frame"
    /\ call'.processed

\* C12, the part about frames: a skipped frame leaves the displayed state,
\* the current profile and the registry as they were and requests no profile.
C12_SkippedFrameChangesNothing ==
    [][SkippedFrame =>
          UNCHANGED << profile_card, current_profile, known_face_encodings,
                       known_face_names >>]_vars

\* C12: a skipped frame leaves the displayed state, the current profile and
\* the registry unchanged, and only processed frames change the displayed
\* SCANNING / UNIDENTIFIED / IDENTIFIED state.
C12_OnlyProcessedFramesChangeState ==
    [][/\ SkippedFrame =>
             UNCHANGED << profile_card, current_profile, known_face_encodings,
                          known_face_names >>
       /\ profile_card' # profile_card => ProcessedFrame]_vars

\* The settings were saved while the card showed UNIDENTIFIED, and the card
\* now shows the subject identified on an earlier frame.
C12_StaleProfileShown ==
    /\ call.op = "save_settings"
    /\ call.ok
    /\ call.profile_card = UnknownProfile
    /\ profile_card.status = "IDENTIFIED"

\* The result of the registry for the first kept detection of the frame the
\* last update_frame processed.
FirstResult == FaceMatches(call.frame)[1].name

C14_ScanningWithinPeriod ==
    scan_wait >= ScanningEvery => profile_card = ScanningProfile

\* What the code does instead: no step makes the card show SCANNING; it
\* shows it from construction until the first kept detection and never again.
C14_ScanningNeverReentered ==
    [][profile_card' = ScanningProfile => profile_card = ScanningProfile]_vars

\* A full period of processed frames without a detection has passed and the
\* card still shows the subject identified before it.
C14_StillIdentified ==
    /\ scan_wait >= ScanningEvery
    /\ profile_card.status = "IDENTIFIED"

\* ------------------------------------------------ the windows and devices

\* A step in which the live tick polled a frame, and a step in which the
\* registry is rebuilt (on_scanner_closed, run by the scanner's closeEvent).
LiveTick == frame_count' # frame_count

RegistryRebuild == scanner = "open" /\ call'.op = "scanner_closeEvent"

\* C15: the live-matching tick never runs while an enrollment window is
\* open, whatever the order in which the scanner is opened (more than once),
\* the settings dialog opened and closed and the scanner closed, and the
\* registry is rebuilt only while the live timer is stopped.
C15_EnrollmentExcludesLive ==
    [][/\ LiveTick => scanner # "open"
       /\ RegistryRebuild => ~timer]_vars

\* The live tick processed a frame while the enrollment window was open.
C15_LiveTickWhileEnrolling ==
    /\ scanner = "open"
    /\ call.op = "update_frame"
    /\ call.processed

\* C16: the live matcher and an enrollment session never both hold an open
\* capture on the same camera index.
C16_DeviceExclusive ==
    ~(/\ video_capture
      /\ scanner_video_capture
      /\ current_camera_index = scanner_camera_index)

\* The enrollment window is open and both windows hold an open capture of
\* the same camera.
C16_BothHoldCamera ==
    /\ scanner = "open"
    /\ video_capture
    /\ scanner_video_capture
    /\ current_camera_index = scanner_camera_index

\* C17: after a successful save the registry is rebuilt before the next
\* processed live frame: every processed live frame is matched against a
\* registry built from the dataset as it is.
C17_RebuiltBeforeNextFrame ==
    (call.op = "update_frame" /\ call.processed) => built_from = dataset

\* A live frame was processed against a registry built before the subject
\* now in the dataset was enrolled.
C17_StaleRegistryMatched ==
    /\ call.op = "update_frame"
    /\ call.processed
    /\ <<"Al">> \in DOMAIN dataset.dirs
    /\ <<"Al">> \notin Labels(known_face_names)

\* C20: after the enrollment window was closed none of its ticks runs.
C20_NoTickAfterClose ==
    ~(scanner = "closed" /\ call.op = "scanner_update_frame")

\* C20, the consequence: whatever ticks run after the window was closed, no
\* frame is polled or captured by it.
C20_NoFrameAfterClose ==
    [][scanner = "closed" /\ scanner' = "closed" =>
          UNCHANGED << scanner_frame_count, captured_images, dataset >>]_vars

\* The window is closed, its capture released, its timer still active, and
\* its update_frame has run.
C20_TickAfterClose ==
    /\ scanner = "closed"
    /\ scanner_timer
    /\ ~scanner_video_capture
    /\ call.op = "scanner_update_frame"
    /\ ~call.ret

\* ------------------------------------------------ profile store, threshold

\* The labels the registry returned for the detections of the frame the
\* last update_frame processed.
Returned == { FaceMatches(call.frame)[i].name : i \in Queried } \ {UNKNOWN}

\* C18: the profile store is asked only on a processed frame, only for the
\* label the registry returned for that frame's first kept detection, a
\* label of the registry; nothing is requested when the frame has no kept
\* detection or its first one resolved to UNKNOWN.
C18_OnlyReturnedLabelsRequested ==
    (call.op = "update_frame" /\ call.processed) =>
        /\ \A i \in 1..Len(call.get_profile) :
              /\ call.get_profile[i] \in Returned
              /\ call.get_profile[i] \in Labels(known_face_names)
              /\ call.get_profile[i] = FirstResult
        /\ Len(Kept(call.frame)) = 0 => call.get_profile = <<>>
        /\ (Len(Kept(call.frame)) > 0 /\ FirstResult = UNKNOWN) =>
              call.get_profile = <<>>

\* A processed frame with an enrolled subject first and a stranger second
\* requested the profile of the enrolled subject.
C18_Witness ==
    /\ call.op = "update_frame"
    /\ call.processed
    /\ call.frame = FaceAThenFar
    /\ call.get_profile = << <<"Bo">> >>

\* C19: a query is resolved by the configured recognition_threshold: the
\* result is a label exactly when the least distance is below the setting
\* as it is when the frame is processed, also after it was changed and saved.
C19_ConfiguredThresholdUsed ==
    \A i \in Queried :
        Len(known_face_encodings) > 0 =>
            (FaceMatches(call.frame)[i].name # UNKNOWN
                <=> MinDistSq(Kept(call.frame)[i].emb)
                       < recognition_threshold * recognition_threshold)

\* The setting was raised and saved, and a query whose least distance lies
\* between the old and the new threshold was answered UNKNOWN.
C19_SettingIgnored ==
    /\ recognition_threshold > RecognitionThreshold
    /\ \E i \in Queried :
          /\ MinDistSq(Kept(call.frame)[i].emb) >= RecognitionThreshold * RecognitionThreshold
          /\ MinDistSq(Kept(call.frame)[i].emb) < recognition_threshold * recognition_threshold
          /\ call.face_names[i] = UNKNOWN

\* ------------------------------------------------ the enrollment tick

\* A step in which the enrollment tick polled a frame.
ScannerTick ==
    /\ call'.op = "scanner_update_frame"
    /\ scanner_frame_count' = scanner_frame_count + 1

\* C21: a tick calls capture_image exactly when the auto capture is on, a
\* face is detected on the frame, the index of the polled frame is a
\* multiple of 60 and fewer than 10 frames are held; a tick that does not
\* call it leaves the captured list as it was, one that does appends at most
\* one frame; the index grows by one per polled frame, so two auto captures
\* of a window are at least 60 polled frames apart.
C21_TickCapturesWhenDue ==
    [][/\ ScannerTick =>
             /\ call'.due <=> /\ auto_capture
                              /\ call'.face_detected
                              /\ scanner_frame_count' % AutoCaptureEvery = 0
                              /\ Len(captured_images) < AutoCaptureCap
             /\ ~call'.due => captured_images' = captured_images
             /\ call'.due => \/ captured_images' = captured_images
                             \/ /\ Len(captured_images') = Len(captured_images) + 1
                                /\ SubSeq(captured_images', 1, Len(captured_images))
                                      = captured_images
             /\ UNCHANGED auto_capture
       /\ (scanner_frame_count' # scanner_frame_count /\ ~ScannerTick) =>
             call'.op = "open_face_scanner" /\ scanner_frame_count' = 0
       /\ auto_appended'.list > auto_appended.list =>
             ScannerTick /\ scanner_frame_count' % AutoCaptureEvery = 0]_vars

\* The second auto capture of a window, on its polled frame 120.
C21_Witness ==
    /\ call.op = "scanner_update_frame"
    /\ call.due
    /\ auto_appended.session = 2
    /\ scanner_frame_count = 2 * AutoCaptureEvery
    /\ Len(captured_images) >= 2

C23_FailureDegradesOneDetection ==
    (call.op = "update_frame" /\ call.processed) =>
        LET kept == Kept(call.frame)
        IN  /\ Len(call.face_names) = Len(kept)
            /\ \A i \in 1..Len(kept) :
                  call.face_names[i] =
                     IF Encoded(kept[i])
                     THEN Match(known_face_encodings, known_face_names,
                                kept[i].emb).name
                     ELSE UNKNOWN
            /\ ~process_this_frame
            /\ frame_count % 2 = 1

\* The embedding of the first detection raised, and the second detection of
\* the same frame was matched.
C23_Witness ==
    /\ call.op = "update_frame"
    /\ call.processed
    /\ call.frame = FaceRaisesThenA
    /\ call.face_names = << UNKNOWN, <<"Bo">> >>
    /\ profile_card = UnknownProfile
    /\ ~process_this_frame

\* ------------------------------------------------ what a build loads

\* The images of subject l in dataset ds that show a face: a detection with
\* the highest confidence is above the threshold and the first of them has
\* a crop that is not empty.
ImagesWithFace(ds, l) ==
    { i \in 1..Len(ds.dirs[l].images) : FaceOf(ds.dirs[l].images[i]) # <<>> }

\* The entries the registry holds under label l.
LabelCount(l) == Cardinality({ j \in 1..Len(known_face_names) : known_face_names[j] = l })

C25_MissingRootGivesEmptyRegistry ==
    ~built_from.exists =>
        /\ known_face_encodings = <<>>
        /\ known_face_names = <<>>

\* A registry that held entries was rebuilt after the dataset directory had
\* been removed, and is empty; the timer runs again.
C25_Witness ==
    /\ Rebuilt
    /\ call.encodings # <<>>
    /\ ~built_from.exists
    /\ known_face_encodings = <<>>
    /\ known_face_names = <<>>
    /\ timer

\* ------------------------------------------------ the option lists
\* The option lists as the program ships them.
ShippedThreatLevels == << <<"LOW">>, <<"MODERATE">>, <<"HIGH">>, <<"CRITICAL">> >>
ShippedStatusTypes ==
    << <<"CIVILIAN">>, <<"VIP">>, <<"EMPLOYEE">>, <<"VISITOR">>, <<"WANTED">>,
       <<"UNKNOWN">> >>
ShippedGenderOptions ==
    << <<"Male">>, <<"Female">>, <<"Other">>, <<"Prefer not to say">> >>

\* C26: after reset_to_defaults, whatever was added, removed or updated
\* before, get_threat_levels, get_status_types and gender_options are the
\* lists the program ships.
C26_ResetRestoresDefaults ==
    call.op = "reset_to_defaults" =>
        /\ get_threat_levels = ShippedThreatLevels
        /\ get_status_types = ShippedStatusTypes
        /\ gender_options = ShippedGenderOptions

\* reset_to_defaults has just returned and an option added before is
\* still among the gender options, or a threat level renamed before still
\* carries the new name.
C26_ResetKeepsChange ==
    /\ call.op = "reset_to_defaults"
    /\ \/ gender_options = Append(ShippedGenderOptions, <<"New">>)
       \/ get_threat_levels # ShippedThreatLevels

\* The operations of the settings dialog on its option lists.
DialogEdits ==
    { "dialog_add_threat_level", "edit_threat_level",
      "dialog_remove_threat_level", "dialog_add_status_type",
      "edit_status_type", "dialog_remove_status_type",
      "dialog_add_gender_option", "dialog_remove_gender_option" }

\* C27: the dialog edits a copy: adding, editing or removing a threat
\* level, a status type or a gender option in the dialog leaves the global
\* settings as they are; only saving the dialog changes them.
C27_DialogEditsCopy ==
    [][call'.op \in DialogEdits =>
          Dumped(heap', settings') = Dumped(heap, settings)]_vars

\* The dialog was opened on the shipped settings and a status type added
\* in it: the global settings have it before anything is saved.
C27_GlobalChangedUnsaved ==
    /\ call.op = "dialog_add_status_type"
    /\ user_actions = 2
    /\ settings_dialog
    /\ get_status_types = Append(ShippedStatusTypes, <<"NEW">>)

\* No two entries of the sequence are equal.
Unique(names) ==
    \A i \in 1..Len(names), j \in 1..Len(names) : names[i] = names[j] => i = j

\* C28: whatever was added, updated or removed, no two threat levels have
\* the same name and no two status types have the same name.
C28_NamesUnique ==
    /\ Unique(get_threat_levels)
    /\ Unique(get_status_types)

\* An update or an edit has just given an entry the name of another entry
\* of its list.
C28_DuplicateAfterUpdate ==
    /\ call.op \in { "update_threat_level", "update_status_type",
                     "edit_threat_level", "edit_status_type" }
    /\ \/ ~Unique(get_threat_levels)
       \/ ~Unique(get_status_types)

\* ------------------------------------------------ the processing flag
\* C29: process_this_frame is true exactly when frame_count, the number of
\* frames polled successfully, is even, before and after every step: so a
\* processed frame is an odd-numbered one, a step that polls no frame
\* (a failed read, or stopping and restarting the timer around the scanner
\* window or the settings dialog) changes neither the flag nor the count.
C29_FlagIsParity ==
    [][/\ process_this_frame <=> (frame_count % 2 = 0)
       /\ process_this_frame' <=> (frame_count' % 2 = 0)
       /\ ProcessedFrame => frame_count' % 2 = 1
       /\ SkippedFrame => frame_count' % 2 = 0
       /\ ~LiveTick => process_this_frame' = process_this_frame]_vars

\* The scanner window has been closed and the timer restarted after an odd
\* number of frames: the next frame is one to skip.
C29_ResumedOnOddCount ==
    /\ call.op = "scanner_closeEvent"
    /\ timer
    /\ frame_count % 2 = 1
    /\ ~process_this_frame

\* ------------------------------------------------ enrolled labels, live
\* The first kept detection of the frame the last update_frame processed
\* was sent to the registry and its nearest stored vector is within the
\* threshold.
FirstWithinThreshold ==
    /\ 1 \in Queried
    /\ Len(known_face_encodings) > 0
    /\ MinDistSq(Kept(call.frame)[1].emb) < RecognitionThreshold * RecognitionThreshold

\* The label of the stored vector nearest to that detection.
NearestLabel ==
    known_face_names[
        ArgMin([j \in 1..Len(known_face_encodings) |->
                   DistSq(known_face_encodings[j], Kept(call.frame)[1].emb)])]

\* C30: every enrolled label can be identified: a processed frame whose
\* first detection is within the threshold of a vector of the label (the
\* nearest stored vector) shows the profile of that label as identified
\* and requests that profile, whatever the label is.
C30_EnrolledLabelIdentified ==
    FirstWithinThreshold =>
        /\ profile_card = GetProfile(NearestLabel)
        /\ call.get_profile = << NearestLabel >>

\* A subject enrolled as "Unknown" is in view, within the threshold of its
\* stored vector: the card shows UNIDENTIFIED and no profile is requested.
C30_SentinelLabelUnidentified ==
    /\ FirstWithinThreshold
    /\ NearestLabel = UNKNOWN
    /\ profile_card = UnknownProfile
    /\ call.get_profile = <<>>

====
